---- MODULE Spec2Model ----
(***************************************************************************)
(* The fetch / cache / invalidate pipeline of RobloxDocsDataFetcher        *)
(* (src/src/data-fetcher.ts) together with its caller loadDocsData /       *)
(* clearCacheAndRefresh (src/src/creator-docs.tsx).                        *)
(*                                                                         *)
(* Time is counted in hours: the source's 24 * 60 * 60 * 1000 ms is 24 and *)
(* its 60 * 60 * 1000 ms is 1.  Every request is aborted after 10 s or     *)
(* 60 s, so a request settles within the hour it was issued in, or never.  *)
(* The two persistent cache keys are the variables cacheData               *)
(* ("roblox-docs-data") and lastUpdateCheck                                *)
(* ("roblox-docs-last-update-check"); both hold strings or nothing.        *)
(***************************************************************************)
EXTENDS Integers, Sequences, FiniteSets

VARIABLES
    now,              \* Date.now(), in clock units
    ticks,            \* number of clock advances so far (bounds the run)
    remote,           \* commit the tracked repository's main branch is at
    extVersion,       \* version of the running extension
    cacheData,        \* string stored under cacheKey, or Undefined
    lastUpdateCheck,  \* string stored under lastUpdateCheckKey, or Undefined
    call,             \* the fetchDocsData invocations, by caller slot
    bg,               \* background version checks in flight
    allDocs,          \* the caller's in-memory record set (useState)
    toast,            \* branch loadDocsData last took
    cacheWriter,      \* history: extension version that wrote cacheData
    shaReq,           \* history: the last version-check requests, any path
    bgReq,            \* history: the last background version-check requests
    updateAvailable,  \* history: line 185 was reached for the current entry
    zipEntries,       \* the entries of the archive processZipArchiveOptimized reads
    relevantFiles,    \* its local relevantFiles
    i,                \* its loop variable
    docItems,         \* its local docItems
    zipPc,            \* its position
    started,          \* history: number of file extractions started
    settled,          \* history: number of file extractions settled
    converted,        \* history: number of files whose records were appended
    origins,          \* history: for each of docItems, the file and node it is from
    searchText,       \* the Command component's searchText (useState)
    filteredDocs      \* its filteredDocs (useMemo)

\* The variables of one run of processZipArchiveOptimized.
zipVars == <<zipEntries, relevantFiles, i, docItems, zipPc, started, settled,
             converted, origins>>

\* The variables of the fetcher and of loadDocsData.
fetcherVars == <<now, ticks, remote, extVersion, cacheData, lastUpdateCheck, call,
                 bg, allDocs, toast, cacheWriter, shaReq, bgReq, updateAvailable>>

\* The variables of the search view.
searchVars == <<searchText, filteredDocs>>

vars == <<now, ticks, remote, extVersion, cacheData, lastUpdateCheck, call, bg,
          allDocs, toast, cacheWriter, shaReq, bgReq, updateAvailable,
          zipVars, searchVars>>

----------------------------------------------------------------------------
(* Bounds of the model *)

MaxTicks == 3
MaxVersion == 2

\* The callers of fetchDocsData: the Command component, whose refreshes are
\* serialized (one loadDocsData in flight at a time).
Calls == {"Command"}

(* Program constants *)

cacheExpiry == 24

updateCheckInterval == 1

----------------------------------------------------------------------------
(* The environment: the repository on GitHub and the network *)

NULL == "null"

Commits == {"a", "b", "c"}

\* The DocItems processZipArchiveOptimized derives from the archive of a commit;
\* commit "c" holds no file under content/en-us/.
ArchiveDocs(commit) ==
    CASE commit = "a" -> <<"x">>
      [] commit = "b" -> <<"x", "y">>
      [] OTHER        -> <<>>

ShaOutcomes == {"ok", "httpError", "networkError", "timeout"}

ZipOutcomes == {"ok", "okInvalid", "httpError", "networkError", "timeout"}

----------------------------------------------------------------------------
(* Strings held by the cache *)

Undefined == [kind |-> "undefined"]

Garbage == [kind |-> "garbage"]

Null == [kind |-> "null"]

JSONStringify(obj) ==
    [kind |-> "json", data |-> obj.data, timestamp |-> obj.timestamp, sha |-> obj.sha]

JSONParse(str) ==
    IF str.kind = "json"
    THEN [threw |-> FALSE,
          value |-> [kind |-> "object", data |-> str.data,
                     timestamp |-> str.timestamp, sha |-> str.sha]]
    ELSE [threw |-> TRUE, value |-> Null]

RECURSIVE ToString(_)
ToString(n) ==
    IF n < 10 THEN <<n>> ELSE Append(ToString(n \div 10), n % 10)

RECURSIVE ParseInt(_)
ParseInt(s) ==
    IF Len(s) = 1 THEN s[1]
    ELSE 10 * ParseInt(SubSeq(s, 1, Len(s) - 1)) + s[Len(s)]

Str(chars) == [kind |-> "string", chars |-> chars]

----------------------------------------------------------------------------
(* JavaScript strings and values.  A string is the sequence of its           *)
(* characters; a value read from a YAML document is Undefined, Null, a       *)
(* string Str(chars) or a number Num(n).                                     *)

Num(n) == [kind |-> "number", n |-> n]

LowerCase ==
    <<"a", "b", "c", "d", "e", "f", "g", "h", "i", "j", "k", "l", "m",
      "n", "o", "p", "q", "r", "s", "t", "u", "v", "w", "x", "y", "z">>

UpperCase ==
    <<"A", "B", "C", "D", "E", "F", "G", "H", "I", "J", "K", "L", "M",
      "N", "O", "P", "Q", "R", "S", "T", "U", "V", "W", "X", "Y", "Z">>

Digits == <<"0", "1", "2", "3", "4", "5", "6", "7", "8", "9">>

Range(f) == {f[k] : k \in DOMAIN f}

\* [a-z0-9] with the i flag
IsAlnum(ch) == ch \in Range(LowerCase) \cup Range(UpperCase) \cup Range(Digits)

\* [a-z0-9] without it
IsLowerAlnum(ch) == ch \in Range(LowerCase) \cup Range(Digits)

\* \w
IsWordChar(ch) == IsAlnum(ch) \/ ch = "_"

\* The lower-case letter of each upper-case letter
ToLowerMap ==
    [ch \in Range(UpperCase) |->
        LowerCase[CHOOSE k \in DOMAIN UpperCase : UpperCase[k] = ch]]

ToLowerChar(ch) == IF ch \in DOMAIN ToLowerMap THEN ToLowerMap[ch] ELSE ch

\* String.prototype.toLowerCase
ToLowerCase(s) == [k \in 1..Len(s) |-> ToLowerChar(s[k])]

\* sub occurs in s at index k (counted from 0)
OccursAt(s, sub, k) == \A j \in 1..Len(sub) : s[k + j] = sub[j]

\* String.prototype.includes
Includes(s, sub) == \E k \in 0..(Len(s) - Len(sub)) : OccursAt(s, sub, k)

\* String.prototype.indexOf, -1 when sub does not occur
IndexOf(s, sub) ==
    IF ~ Includes(s, sub) THEN -1
    ELSE CHOOSE k \in 0..(Len(s) - Len(sub)) :
            /\ OccursAt(s, sub, k)
            /\ \A j \in 0..(k - 1) : ~ OccursAt(s, sub, j)

\* String.prototype.startsWith
StartsWith(s, sub) == Len(sub) <= Len(s) /\ SubSeq(s, 1, Len(sub)) = sub

\* String.prototype.endsWith
EndsWith(s, sub) ==
    Len(sub) <= Len(s) /\ SubSeq(s, Len(s) - Len(sub) + 1, Len(s)) = sub

\* String.prototype.substring(from)
Substring(s, from) == SubSeq(s, from + 1, Len(s))

\* String.prototype.substring(0, to)
Truncate(s, to) == SubSeq(s, 1, IF to < Len(s) THEN to ELSE Len(s))

\* String.prototype.split on the one-character separators in separators, from
\* position k on
RECURSIVE Split(_, _, _)
Split(s, separators, k) ==
    LET seps == {j \in k..Len(s) : s[j] \in separators}
        next == IF seps = {} THEN Len(s) + 1
                ELSE CHOOSE j \in seps : \A m \in seps : j <= m
    IN  IF seps = {} THEN <<SubSeq(s, k, Len(s))>>
        ELSE <<SubSeq(s, k, next - 1)>> \o Split(s, separators, next + 1)

\* String.prototype.replace(/[...]/g, to) for a class of single characters
ReplaceAll(s, hits, to) == [k \in 1..Len(s) |-> IF s[k] \in hits THEN to ELSE s[k]]

\* Number.prototype.toString, as characters
NumberToString(n) == [k \in 1..Len(ToString(n)) |-> Digits[ToString(n)[k] + 1]]

\* `${v}` in a template literal
TemplateString(v) ==
    CASE v.kind = "string"    -> v.chars
      [] v.kind = "number"    -> NumberToString(v.n)
      [] v.kind = "undefined" -> <<"u", "n", "d", "e", "f", "i", "n", "e", "d">>
      [] OTHER                -> <<"n", "u", "l", "l">>

\* ToBoolean
Truthy(v) ==
    CASE v.kind = "string" -> v.chars # <<>>
      [] v.kind = "number" -> v.n # 0
      [] OTHER             -> FALSE

\* a || b
Or(a, b) == IF Truthy(a) THEN a ELSE b

\* count copies of the character ch
Repeat(ch, count) == [k \in 1..count |-> ch]

----------------------------------------------------------------------------
(* RobloxDocsDataFetcher *)

\* Faulty variant of ClearCache: another key than cacheKey is removed.
ClearCache_WrongKey == cacheData

\* clearCache: what cache.remove(cacheKey) leaves under cacheKey.
ClearCache == Undefined

\* Faulty variant of GetLatestCommitSha: the try/catch around the request is missing.
GetLatestCommitSha_NoCatch(outcome, commit) ==
    IF outcome = "ok"
    THEN [threw |-> FALSE, value |-> commit]
    ELSE IF outcome = "httpError"
    THEN [threw |-> FALSE, value |-> NULL]
    ELSE [threw |-> TRUE, value |-> NULL]

GetLatestCommitSha(outcome, commit) ==
    IF outcome = "ok"
    THEN [threw |-> FALSE, value |-> commit]
    ELSE [threw |-> FALSE, value |-> NULL]

\* Faulty variant of GetCachedData: the expiry test is >= instead of >.
GetCachedData_ExpiresAtTTL(cachedData, t) ==
    IF cachedData = Undefined THEN Null
    ELSE IF cachedData.kind # "json" THEN Null
    ELSE IF t - cachedData.timestamp >= cacheExpiry THEN Null
    ELSE [kind |-> "object", data |-> cachedData.data,
          timestamp |-> cachedData.timestamp, sha |-> cachedData.sha]

GetCachedData(cachedData, t) ==
    IF cachedData = Undefined THEN Null
    ELSE LET parsed == JSONParse(cachedData) IN
         IF parsed.threw THEN Null
         ELSE IF t - parsed.value.timestamp > cacheExpiry THEN Null
         ELSE parsed.value

\* Faulty variant of Throttled: the marker is not consulted.
Throttled_Never(lastCheckStr, t) == FALSE

\* Faulty variant of Throttled: the comparison is turned around.
Throttled_Inverted(lastCheckStr, t) ==
    /\ lastCheckStr # Undefined
    /\ t - ParseInt(lastCheckStr.chars) > updateCheckInterval

Throttled(lastCheckStr, t) ==
    /\ lastCheckStr # Undefined
    /\ t - ParseInt(lastCheckStr.chars) < updateCheckInterval

\* Faulty variant of CacheUsable: the length test is missing.
CacheUsable_AnyEntry(cachedData) == cachedData # Null

\* Faulty variant of CacheUsable: the length test is off by one.
CacheUsable_OffByOne(cachedData) ==
    /\ cachedData # Null
    /\ Len(cachedData.data) > 1

CacheUsable(cachedData) ==
    /\ cachedData # Null
    /\ Len(cachedData.data) > 0

\* Line 185, "Update available, but will be fetched on next restart", is reached.
BgSeesUpdate(latestSha, cachedSha) ==
    ~ (latestSha = NULL \/ (cachedSha # NULL /\ cachedSha = latestSha))

\* Faulty variant of BgThen: the callback drops the entry when it sees an update.
BgThen_Invalidates(latestSha, cachedSha, slot) ==
    IF BgSeesUpdate(latestSha, cachedSha) THEN Undefined ELSE slot

\* The .then callback of the background check: what it leaves under cacheKey.
BgThen(latestSha, cachedSha, slot) == slot

\* Faulty variant of ProcessZipArchiveOptimized: the error of JSZip.loadAsync is
\* swallowed.
ProcessZipArchiveOptimized_Swallows(zipBuffer) ==
    IF zipBuffer.valid
    THEN [threw |-> FALSE, docItems |-> zipBuffer.docs]
    ELSE [threw |-> FALSE, docItems |-> <<>>]

ProcessZipArchiveOptimized(zipBuffer) ==
    IF zipBuffer.valid
    THEN [threw |-> FALSE, docItems |-> zipBuffer.docs]
    ELSE [threw |-> TRUE, docItems |-> <<>>]

Pending == [kind |-> "pending", docs |-> <<>>]

Resolved(docs) == [kind |-> "resolved", docs |-> docs]

Rejected == [kind |-> "rejected", docs |-> <<>>]

\* Faulty variant of FetchFreshCatch: the catch block rethrows.
FetchFreshCatch_Rethrows(slot) == Rejected

\* Faulty variant of FetchFreshCatch: the catch block falls back to the records
\* under cacheKey.
FetchFreshCatch_FallsBack(slot) ==
    IF slot.kind = "json" THEN Resolved(slot.data) ELSE Resolved(<<>>)

\* The catch block of fetchFreshData, with `slot` under cacheKey: it logs the
\* error and returns [].
FetchFreshCatch(slot) == Resolved(<<>>)

NoBuffer == [valid |-> FALSE, docs |-> <<>>]

\* An invocation of fetchDocsData: where it stands (pc), the branch it took
\* (path), the locals of fetchFreshData, what its catch block caught and the
\* value of the returned promise.
Idle == [pc |-> "idle", path |-> "none", latestSha |-> NULL,
         shaOutcome |-> "none", zipBuffer |-> NoBuffer, caught |-> "none",
         result |-> Pending]

\* A settled invocation: only its result and the path it took remain.
Settled(caught, result, path) ==
    [pc |-> "done", path |-> path, latestSha |-> NULL,
     shaOutcome |-> "none", zipBuffer |-> NoBuffer, caught |-> caught,
     result |-> result]

\* History of requests: the time since the last one (age) and the distance
\* between the last two (gap), both cut off at updateCheckInterval; -1 for none.
NoReq == [age |-> -1, gap |-> -1]

LogReq(log) == [age |-> 0, gap |-> log.age]

AgeReq(log, d) ==
    IF log.age = -1 THEN log
    ELSE [log EXCEPT !.age = IF @ + d < updateCheckInterval THEN @ + d
                              ELSE updateCheckInterval]

----------------------------------------------------------------------------
(* loadDocsData: what it does once fetchDocsData has settled *)

LoadDocsDataSettle(result) ==
    IF result.kind = "resolved"
    THEN allDocs' = result.docs /\ toast' = "success"
    ELSE allDocs' = allDocs /\ toast' = "failure"

----------------------------------------------------------------------------
(* Actions *)

\* checkForUpdatesInBackground(cachedData.sha), called from fetchDocsData.
CheckForUpdatesInBackground(cachedData) ==
    IF Throttled(lastUpdateCheck, now)
    THEN UNCHANGED <<lastUpdateCheck, bg, bgReq, shaReq>>
    ELSE /\ lastUpdateCheck' = Str(ToString(now))
         /\ bg' = bg \cup {cachedData.sha}
         /\ bgReq' = LogReq(bgReq)
         /\ shaReq' = LogReq(shaReq)

\* fetchDocsData up to its first await, on the cache as `slot` leaves it.
FetchDocsData(c, slot) ==
    LET cachedData == GetCachedData(slot, now) IN
    IF CacheUsable(cachedData)
    THEN /\ CheckForUpdatesInBackground(cachedData)
         /\ call' = [call EXCEPT ![c] =
                Settled("none", Resolved(cachedData.data), "cache")]
         /\ LoadDocsDataSettle(Resolved(cachedData.data))
    ELSE /\ call' = [call EXCEPT ![c] =
                [Idle EXCEPT !.pc = "sha", !.path = "fresh"]]
         /\ shaReq' = LogReq(shaReq)
         /\ UNCHANGED <<lastUpdateCheck, bg, bgReq, allDocs, toast>>

LoadDocsData(c) ==
    /\ call[c].pc \in {"idle", "done"}
    /\ FetchDocsData(c, cacheData)
    /\ UNCHANGED <<now, ticks, remote, extVersion, cacheData, cacheWriter, updateAvailable>>
    /\ UNCHANGED <<zipVars, searchVars>>

ClearCacheAndRefresh(c) ==
    /\ call[c].pc \in {"idle", "done"}
    /\ cacheData' = ClearCache
    /\ cacheWriter' = 0
    /\ updateAvailable' = FALSE
    /\ FetchDocsData(c, ClearCache)
    /\ UNCHANGED <<now, ticks, remote, extVersion>>
    /\ UNCHANGED <<zipVars, searchVars>>

\* fetchFreshData: the awaited getLatestCommitSha settles, the archive is requested.
ShaResponds(c, outcome) ==
    /\ call[c].pc = "sha"
    /\ LET r == GetLatestCommitSha(outcome, remote) IN
       IF r.threw
       THEN /\ call' = [call EXCEPT ![c] = Settled("none", Rejected, "fresh")]
            /\ LoadDocsDataSettle(Rejected)
       ELSE /\ call' = [call EXCEPT ![c].pc = "zip", ![c].latestSha = r.value,
                                    ![c].shaOutcome = outcome]
            /\ UNCHANGED <<allDocs, toast>>
    /\ UNCHANGED <<now, ticks, remote, extVersion, cacheData, lastUpdateCheck, bg,
                   cacheWriter, shaReq, bgReq, updateAvailable>>
    /\ UNCHANGED <<zipVars, searchVars>>

\* fetchFreshData: the archive request and the read of its body settle.
ZipResponds(c, outcome) ==
    /\ call[c].pc = "zip"
    /\ IF outcome \in {"ok", "okInvalid"}
       THEN /\ call' = [call EXCEPT ![c].pc = "process",
                           ![c].zipBuffer = [valid |-> outcome = "ok",
                                             docs |-> IF outcome = "ok"
                                                      THEN ArchiveDocs(remote) ELSE <<>>]]
            /\ UNCHANGED <<allDocs, toast>>
       ELSE /\ call' = [call EXCEPT ![c] =
                   Settled(IF outcome = "httpError" THEN "status" ELSE "request",
                           FetchFreshCatch(cacheData), "fresh")]
            /\ LoadDocsDataSettle(FetchFreshCatch(cacheData))
    /\ UNCHANGED <<now, ticks, remote, extVersion, cacheData, lastUpdateCheck, bg,
                   cacheWriter, shaReq, bgReq, updateAvailable>>
    /\ UNCHANGED <<zipVars, searchVars>>

\* fetchFreshData: processZipArchiveOptimized settles; on success the slot is written.
ProcessDone(c) ==
    /\ call[c].pc = "process"
    /\ LET r == ProcessZipArchiveOptimized(call[c].zipBuffer) IN
       IF r.threw
       THEN /\ call' = [call EXCEPT ![c] =
                   Settled("archive", FetchFreshCatch(cacheData), "fresh")]
            /\ LoadDocsDataSettle(FetchFreshCatch(cacheData))
            /\ UNCHANGED <<cacheData, cacheWriter, updateAvailable>>
       ELSE /\ cacheData' = JSONStringify([data |-> r.docItems, timestamp |-> now,
                                           sha |-> call[c].latestSha])
            /\ cacheWriter' = extVersion
            /\ updateAvailable' = FALSE
            /\ call' = [call EXCEPT ![c] = Settled("none", Resolved(r.docItems), "fresh")]
            /\ LoadDocsDataSettle(Resolved(r.docItems))
    /\ UNCHANGED <<now, ticks, remote, extVersion, lastUpdateCheck, bg, shaReq, bgReq>>
    /\ UNCHANGED <<zipVars, searchVars>>

\* The detached getLatestCommitSha of a background check settles.
BgResponds(cachedSha, outcome) ==
    /\ cachedSha \in bg
    /\ LET r == GetLatestCommitSha(outcome, remote) IN
       IF r.threw
       THEN UNCHANGED <<cacheData, updateAvailable>>
       ELSE /\ cacheData' = BgThen(r.value, cachedSha, cacheData)
            /\ updateAvailable' =
                   IF /\ BgSeesUpdate(r.value, cachedSha)
                      /\ cacheData.kind = "json"
                      /\ cacheData.sha = cachedSha
                   THEN TRUE ELSE updateAvailable
    /\ bg' = bg \ {cachedSha}
    /\ UNCHANGED <<now, ticks, remote, extVersion, lastUpdateCheck, call, allDocs,
                   toast, cacheWriter, shaReq, bgReq>>
    /\ UNCHANGED <<zipVars, searchVars>>

\* The clock advances.
Tick(d) ==
    /\ ticks < MaxTicks
    /\ \A c \in Calls : call[c].pc \in {"idle", "done"}
    /\ bg = {}
    /\ now' = now + d
    /\ ticks' = ticks + 1
    /\ shaReq' = AgeReq(shaReq, d)
    /\ bgReq' = AgeReq(bgReq, d)
    /\ UNCHANGED <<remote, extVersion, cacheData, lastUpdateCheck, call, bg, allDocs,
                   toast, cacheWriter, updateAvailable>>
    /\ UNCHANGED <<zipVars, searchVars>>

\* A commit lands on the tracked repository.
RemotePush(commit) ==
    /\ commit # remote
    /\ remote' = commit
    /\ UNCHANGED <<now, ticks, extVersion, cacheData, lastUpdateCheck, call, bg,
                   allDocs, toast, cacheWriter, shaReq, bgReq, updateAvailable>>
    /\ UNCHANGED <<zipVars, searchVars>>

\* The extension is updated to its next version.
Upgrade ==
    /\ extVersion < MaxVersion
    /\ extVersion' = extVersion + 1
    /\ UNCHANGED <<now, ticks, remote, cacheData, lastUpdateCheck, call, bg,
                   allDocs, toast, cacheWriter, shaReq, bgReq, updateAvailable>>
    /\ UNCHANGED <<zipVars, searchVars>>

----------------------------------------------------------------------------

Init ==
    /\ now = 0
    /\ ticks = 0
    /\ remote = "a"
    /\ extVersion = 1
    /\ cacheData \in {Undefined, Garbage}
    /\ lastUpdateCheck = Undefined
    /\ call = [c \in Calls |-> Idle]
    /\ bg = {}
    /\ allDocs = <<>>
    /\ toast = "none"
    /\ cacheWriter = 0
    /\ shaReq = NoReq
    /\ bgReq = NoReq
    /\ updateAvailable = FALSE
    /\ zipEntries = <<>>
    /\ relevantFiles = <<>>
    /\ i = 0
    /\ docItems = <<>>
    /\ zipPc = "idle"
    /\ started = 0
    /\ settled = 0
    /\ converted = 0
    /\ origins = <<>>
    /\ searchText = <<>>
    /\ filteredDocs = <<>>

Next ==
    \/ \E c \in Calls : LoadDocsData(c)
    \/ \E c \in Calls : ClearCacheAndRefresh(c)
    \/ \E c \in Calls, o \in ShaOutcomes : ShaResponds(c, o)
    \/ \E c \in Calls, o \in ZipOutcomes : ZipResponds(c, o)
    \/ \E c \in Calls : ProcessDone(c)
    \/ \E s \in bg, o \in ShaOutcomes : BgResponds(s, o)
    \/ \E d \in {updateCheckInterval, cacheExpiry} : Tick(d)
    \/ \E s \in Commits : RemotePush(s)

Spec == Init /\ [][Next]_vars

\* The same program across updates of the extension.
NextUpgrade == Next \/ Upgrade

SpecUpgrade == Init /\ [][NextUpgrade]_vars

----------------------------------------------------------------------------
(* The extractor: string literals of data-fetcher.ts *)

ContentRoot == <<"c", "o", "n", "t", "e", "n", "t", "/", "e", "n", "-", "u", "s", "/">>

DotMd == <<".", "m", "d">>

DotYaml == <<".", "y", "a", "m", "l">>

Ellipsis == <<".", ".", ".">>

Deprecated == <<"D", "e", "p", "r", "e", "c", "a", "t", "e", "d">>

Properties == <<"p", "r", "o", "p", "e", "r", "t", "i", "e", "s">>

Methods == <<"m", "e", "t", "h", "o", "d", "s">>

Events == <<"e", "v", "e", "n", "t", "s">>

Callbacks == <<"c", "a", "l", "l", "b", "a", "c", "k", "s">>

Items == <<"i", "t", "e", "m", "s">>

Functions == <<"f", "u", "n", "c", "t", "i", "o", "n", "s">>

ENGINE_REF_ITEMS == <<Properties, Methods, Events, Callbacks, Items, Functions>>

Reference == <<"r", "e", "f", "e", "r", "e", "n", "c", "e">>

\* SUBITEM_TYPE_MAP[type] || "reference"
SUBITEM_TYPE_MAP(type) ==
    CASE type = Properties -> <<"p", "r", "o", "p", "e", "r", "t", "y">>
      [] type = Methods    -> <<"m", "e", "t", "h", "o", "d">>
      [] type = Events     -> <<"e", "v", "e", "n", "t">>
      [] type = Callbacks  -> <<"c", "a", "l", "l", "b", "a", "c", "k">>
      [] type = Functions  -> <<"f", "u", "n", "c", "t", "i", "o", "n">>
      [] OTHER             -> Reference

Article == <<"a", "r", "t", "i", "c", "l", "e">>

Class == <<"c", "l", "a", "s", "s">>

Service == <<"s", "e", "r", "v", "i", "c", "e">>

Enum == <<"e", "n", "u", "m">>

Global == <<"g", "l", "o", "b", "a", "l">>

Tutorial == <<"t", "u", "t", "o", "r", "i", "a", "l">>

Guide == <<"g", "u", "i", "d", "e">>

Classes == <<"C", "l", "a", "s", "s", "e", "s">>

DocsBase ==
    <<"h", "t", "t", "p", "s", ":", "/", "/", "c", "r", "e", "a", "t", "e", ".",
      "r", "o", "b", "l", "o", "x", ".", "c", "o", "m", "/", "d", "o", "c", "s", "/">>

\* The path fragments getCategoryFromPath looks for, in its order, each with
\* the category it returns.
CategoryOfFragment ==
    << <<<<"/", "r", "e", "f", "e", "r", "e", "n", "c", "e", "/", "e", "n", "g", "i",
           "n", "e", "/", "c", "l", "a", "s", "s", "e", "s", "/">>, Classes>>,
       <<<<"/", "r", "e", "f", "e", "r", "e", "n", "c", "e", "/", "e", "n", "g", "i",
           "n", "e", "/", "e", "n", "u", "m", "s", "/">>, <<"E", "n", "u", "m", "s">> >>,
       <<<<"/", "r", "e", "f", "e", "r", "e", "n", "c", "e", "/", "e", "n", "g", "i",
           "n", "e", "/", "g", "l", "o", "b", "a", "l", "s", "/">>,
         <<"G", "l", "o", "b", "a", "l", "s">> >>,
       <<<<"/", "t", "u", "t", "o", "r", "i", "a", "l", "s", "/">>,
         <<"T", "u", "t", "o", "r", "i", "a", "l", "s">> >>,
       <<<<"/", "s", "c", "r", "i", "p", "t", "i", "n", "g", "/">>,
         <<"S", "c", "r", "i", "p", "t", "i", "n", "g">> >>,
       <<<<"/", "a", "r", "t", "/">>, <<"A", "r", "t">> >>,
       <<<<"/", "p", "h", "y", "s", "i", "c", "s", "/">>,
         <<"P", "h", "y", "s", "i", "c", "s">> >>,
       <<<<"/", "u", "i", "/">>, <<"U", "I">> >>,
       <<<<"/", "s", "o", "u", "n", "d", "/">>, <<"S", "o", "u", "n", "d">> >>,
       <<<<"/", "a", "n", "i", "m", "a", "t", "i", "o", "n", "/">>,
         <<"A", "n", "i", "m", "a", "t", "i", "o", "n">> >>,
       <<<<"/", "l", "i", "g", "h", "t", "i", "n", "g", "/">>,
         <<"L", "i", "g", "h", "t", "i", "n", "g">> >> >>

Documentation ==
    <<"D", "o", "c", "u", "m", "e", "n", "t", "a", "t", "i", "o", "n">>

----------------------------------------------------------------------------
(* The extractor: helper functions of data-fetcher.ts.  A function that can  *)
(* raise returns [threw, value].                                             *)

maxLength == 200

MaxSubitems == 50

\* The elements of seq at the positions in keep, in their order.
Pick(seq, keep) ==
    [n \in 1..Cardinality(keep) |->
        seq[CHOOSE k \in keep : Cardinality({j \in keep : j <= k}) = n]]

\* Array.prototype.slice(0, count)
Slice(seq, count) == SubSeq(seq, 1, IF count < Len(seq) THEN count ELSE Len(seq))

\* A property of a YAML node: undefined on a scalar.
Field(node, name) == IF node.kind = "object" THEN node[name] ELSE Undefined

StripExtension(s) ==
    IF EndsWith(s, DotMd) THEN SubSeq(s, 1, Len(s) - Len(DotMd))
    ELSE IF EndsWith(s, DotYaml) THEN SubSeq(s, 1, Len(s) - Len(DotYaml))
    ELSE s

CleanPath(path) ==
    StripExtension(IF StartsWith(path, ContentRoot)
                   THEN Substring(path, Len(ContentRoot)) ELSE path)

\* Faulty variant of IsDeprecated: the marker is looked for in lower case.
IsDeprecated_WrongCase(item) ==
    IF item.kind = "null" THEN [threw |-> TRUE, value |-> FALSE]
    ELSE LET tags == Field(item, "tags")
         IN  [threw |-> FALSE,
              value |-> /\ tags.kind = "array"
                        /\ \E k \in DOMAIN tags.items :
                              tags.items[k] = Str(ToLowerCase(Deprecated))]

\* isDeprecated(item); reading item.tags of null raises.
IsDeprecated(item) ==
    IF item.kind = "null" THEN [threw |-> TRUE, value |-> FALSE]
    ELSE LET tags == Field(item, "tags")
         IN  [threw |-> FALSE,
              value |-> /\ tags.kind = "array"
                        /\ \E k \in DOMAIN tags.items :
                              tags.items[k] = Str(Deprecated)]

\* truncateDescription(description); a number has no length and is returned.
TruncateDescription(description) ==
    IF ~ Truthy(description) THEN Str(<<>>)
    ELSE IF description.kind = "string" /\ Len(description.chars) > maxLength
    THEN Str(Truncate(description.chars, maxLength) \o Ellipsis)
    ELSE description

\* Array.prototype.pop on a non-empty array
Last(seq) == seq[Len(seq)]

ExtractTitleFromPath(filePath) ==
    ReplaceAll(StripExtension(Last(Split(filePath, {"/"}, 1))), {"-", "_"}, " ")

RECURSIVE CategoryFrom(_, _)
CategoryFrom(path, k) ==
    IF k > Len(CategoryOfFragment) THEN Documentation
    ELSE IF Includes(path, CategoryOfFragment[k][1]) THEN CategoryOfFragment[k][2]
    ELSE CategoryFrom(path, k + 1)

GetCategoryFromPath(path) == CategoryFrom(path, 1)

GetTypeFromMetadata(metadata) ==
    IF metadata.type \in {Str(Class), Str(Service), Str(Enum), Str(Global)}
    THEN metadata.type.chars
    ELSE IF Includes(metadata.path, <<"/">> \o Tutorial \o <<"s", "/">>) THEN Tutorial
    ELSE IF Includes(metadata.path, <<"/">> \o Reference \o <<"/">>) THEN Reference
    ELSE Guide

\* The words of s.toLowerCase().split(/\W+/) longer than 2 characters (an empty
\* piece between two adjacent separators is not longer than 2).
Words(s) ==
    SelectSeq(Split(ToLowerCase(s), {ch \in Range(s) : ~ IsWordChar(ch)}, 1),
              LAMBDA w : Len(w) > 2)

\* generateKeywords(title, description, path); toLowerCase of a value that is
\* not a string raises.
\* Array.from(new Set(all)).slice(0, 10): the first occurrences, in order.
FirstTen(all) ==
    Slice(Pick(all, {k \in DOMAIN all : \A j \in 1..(k - 1) : all[j] # all[k]}), 10)

GenerateKeywords(title, description, path) ==
    IF title.kind # "string" \/ description.kind # "string"
    THEN [threw |-> TRUE, value |-> <<>>]
    ELSE [threw |-> FALSE,
          value |-> FirstTen(Words(title.chars) \o Words(description.chars)
                             \o SelectSeq(Split(ToLowerCase(path), {"/"}, 1),
                                          LAMBDA part : Len(part) > 2))]

GenerateIdFromPath(path) ==
    ToLowerCase(ReplaceAll(CleanPath(path), {ch \in Range(path) : ~ IsAlnum(ch)}, "-"))

PathToUrl(path) == DocsBase \o CleanPath(path)

----------------------------------------------------------------------------
(* The extractor: parsing one file.  The text of a file is given by what     *)
(* the regular expression and yamlLoad make of it:                           *)
(*   prose      [header, title, description], header being "absent",         *)
(*              "unparsable" (yamlLoad raises, or yields undefined) or       *)
(*              "mapping";                                                   *)
(*   definition [doc, name, type, summary, members], doc being "unparsable", *)
(*              "empty" or "mapping", members giving for each key of         *)
(*              ENGINE_REF_ITEMS Undefined or an array of nodes.             *)
(* A FileMetadata is [title, description, path, type, subitems]; subitems    *)
(* left out by parseMarkdownFile is the empty sequence (line 281 skips both).*)

Array(items) == [kind |-> "array", items |-> items]

MinimalMetadata(filePath, url) ==
    [path |-> url, type |-> Str(Article),
     title |-> Str(ExtractTitleFromPath(filePath)),
     description |-> Undefined, subitems |-> <<>>]

ParseMarkdownFile(filePath, url, content) ==
    IF content.header = "absent" THEN MinimalMetadata(filePath, url)
    ELSE IF content.header = "unparsable" THEN MinimalMetadata(filePath, url)
    ELSE [title |-> Or(content.title, Str(ExtractTitleFromPath(filePath))),
          description |-> TruncateDescription(content.description),
          path |-> url, type |-> Str(Article), subitems |-> <<>>]

\* Faulty variant of SubitemTitle: every owner's sub-entries are prefixed.
SubitemTitle_AlwaysQualified(data, item) ==
    Str(TemplateString(data.name) \o <<".">> \o TemplateString(Field(item, "name")))

\* Lines 369-374: the title of the record of a sub-entry.
SubitemTitle(data, item) ==
    IF data.type = Str(Enum)
    THEN Str(TemplateString(data.name) \o <<".">> \o TemplateString(Field(item, "name")))
    ELSE Field(item, "name")

\* Lines 358-382 for one key; origin records where a subitem came from.
KeySubitems(data, key) ==
    LET keyData == data.members[key]
        items   == IF keyData.kind = "array" THEN Slice(keyData.items, MaxSubitems)
                   ELSE <<>>
        raised  == \E j \in DOMAIN items : IsDeprecated(items[j]).threw
        kept    == {j \in DOMAIN items : ~ IsDeprecated(items[j]).value}
        all     == [j \in DOMAIN items |->
                      [type |-> key,
                       title |-> SubitemTitle(data, items[j]),
                       description |-> TruncateDescription(Field(items[j], "summary")),
                       origin |-> [key |-> key, index |-> j]]]
    IN  [threw |-> raised, value |-> IF raised THEN <<>> ELSE Pick(all, kept)]

\* The subitems of one key followed by those of the later keys.
ThenSubitems(here, rest) ==
    [threw |-> here.threw \/ rest.threw, value |-> here.value \o rest.value]

RECURSIVE Subitems(_, _)
Subitems(data, k) ==
    IF k > Len(ENGINE_REF_ITEMS) THEN [threw |-> FALSE, value |-> <<>>]
    ELSE ThenSubitems(KeySubitems(data, ENGINE_REF_ITEMS[k]), Subitems(data, k + 1))

\* Lines 348-385, given the subitems collected by the loop.
YamlMetadata(url, data, subitems) ==
    IF subitems.threw THEN Null
    ELSE [title |-> data.name,
          type |-> Or(data.type, Str(Class)),
          path |-> url,
          description |-> TruncateDescription(data.summary),
          subitems |-> subitems.value]

ParseYamlFile(filePath, url, content) ==
    IF content.doc = "unparsable" THEN Null
    ELSE IF content.doc = "empty" \/ ~ Truthy(content.name) THEN Null
    ELSE YamlMetadata(url, content, Subitems(content, 1))

----------------------------------------------------------------------------
(* The extractor: FileMetadata to DocItem.  A DocItem is                     *)
(* [id, title, description, url, category, keywords, type], all strings.     *)

\* Lines 412-420, given the keywords.
ParentDocItem(metadata, keywords) ==
    IF keywords.threw THEN [threw |-> TRUE, value |-> Null]
    ELSE [threw |-> FALSE,
          value |-> [kind |-> "object",
                     id |-> GenerateIdFromPath(metadata.path),
                     title |-> metadata.title.chars,
                     description |-> Or(metadata.description, Str(<<>>)).chars,
                     url |-> PathToUrl(metadata.path),
                     category |-> GetCategoryFromPath(metadata.path),
                     keywords |-> keywords.value,
                     type |-> GetTypeFromMetadata(metadata)]]

MetadataToDocItem(metadata) ==
    IF ~ Truthy(metadata.title) THEN [threw |-> FALSE, value |-> Null]
    ELSE ParentDocItem(metadata,
                       GenerateKeywords(metadata.title,
                                        Or(metadata.description, Str(<<>>)),
                                        metadata.path))

\* title.split(sep).pop() || title
LastPart(title, sep) ==
    IF Last(Split(title, {sep}, 1)) # <<>>
    THEN Last(Split(title, {sep}, 1))
    ELSE title

\* Line 449: the description given to a sub-entry without one.
FallbackDescription(subitem, parentMetadata) ==
    Str(SubSeq(subitem.type, 1, Len(subitem.type) - 1) \o <<" ", "o", "f", " ">>
        \o TemplateString(parentMetadata.title))

\* Lines 433-438
AnchorName(title) ==
    IF Includes(title, <<":">>) THEN LastPart(title, ":")
    ELSE IF Includes(title, <<".">>) THEN LastPart(title, ".")
    ELSE title

\* Lines 446-454, given the keywords.
MemberDocItem(subitem, parentMetadata, keywords) ==
    IF keywords.threw THEN [threw |-> TRUE, value |-> Null]
    ELSE [threw |-> FALSE,
          value |-> [kind |-> "object",
                     id |-> GenerateIdFromPath(parentMetadata.path) \o <<"-">>
                            \o ReplaceAll(ToLowerCase(subitem.title.chars),
                                          {ch \in Range(ToLowerCase(subitem.title.chars)) :
                                              ~ IsLowerAlnum(ch)}, "-"),
                     title |-> subitem.title.chars,
                     description |-> Or(subitem.description,
                                        FallbackDescription(subitem, parentMetadata)).chars,
                     url |-> PathToUrl(parentMetadata.path) \o <<"#">>
                             \o AnchorName(subitem.title.chars),
                     category |-> GetCategoryFromPath(parentMetadata.path),
                     keywords |-> keywords.value,
                     type |-> SUBITEM_TYPE_MAP(subitem.type)]]

SubitemToDocItem(subitem, parentMetadata) ==
    IF ~ Truthy(subitem.title) THEN [threw |-> FALSE, value |-> Null]
    ELSE IF subitem.title.kind # "string" THEN [threw |-> TRUE, value |-> Null]
    ELSE MemberDocItem(subitem, parentMetadata,
                       GenerateKeywords(subitem.title,
                                        Or(subitem.description, Str(<<>>)),
                                        parentMetadata.path))

----------------------------------------------------------------------------
(* processZipArchiveOptimized, step by step.  An archive entry is            *)
(* [path, dir, readable, content]; readable is whether file.async("text")    *)
(* resolves.  The archive itself opens (the fetcher above covers the one     *)
(* that does not).  The extractions of a batch settle in any order, and      *)
(* Promise.all orders their results by position, so only the number of       *)
(* settled extractions is kept.                                              *)

BATCH_SIZE == 25

\* Lines 241-245
RelevantFile(entry) ==
    /\ Includes(entry.path, ContentRoot)
    /\ EndsWith(entry.path, DotMd) \/ EndsWith(entry.path, DotYaml)
    /\ ~ entry.dir

\* Lines 254-269: the extraction of one file, to a FileMetadata or null.
ExtractFile(entry) ==
    IF ~ entry.readable THEN Null
    ELSE LET url == Substring(entry.path, IndexOf(entry.path, ContentRoot))
         IN  IF EndsWith(entry.path, DotMd)
             THEN ParseMarkdownFile(entry.path, url, entry.content)
             ELSE IF EndsWith(entry.path, DotYaml)
             THEN ParseYamlFile(entry.path, url, entry.content)
             ELSE Null

\* Nothing converted, and no exception.
NoRecords == [threw |-> FALSE, value |-> <<>>, origins |-> <<>>]

\* The records converted so far followed by those converted next, unless an
\* exception ended the conversion.
ThenRecords(here, rest) ==
    IF here.threw THEN here
    ELSE [threw   |-> rest.threw,
          value   |-> here.value \o rest.value,
          origins |-> here.origins \o rest.origins]

\* The outcome of converting one node: its record, if it has one.
Converted(docItem, origin) ==
    IF docItem.threw THEN [threw |-> TRUE, value |-> <<>>, origins |-> <<>>]
    ELSE IF docItem.value = Null THEN NoRecords
    ELSE [threw |-> FALSE, value |-> <<docItem.value>>, origins |-> <<origin>>]

\* Lines 282-287: the records of subitems k.. of metadata, up to a raise.
RECURSIVE ConvertSubitems(_, _)
ConvertSubitems(metadata, k) ==
    IF k > Len(metadata.subitems) THEN NoRecords
    ELSE ThenRecords(Converted(SubitemToDocItem(metadata.subitems[k], metadata),
                               metadata.subitems[k].origin),
                     ConvertSubitems(metadata, k + 1))

\* Lines 277-289: subitems are converted only when the file has a record.
ThenSubRecords(parent, metadata) ==
    IF parent.value = <<>> THEN parent
    ELSE ThenRecords(parent, ConvertSubitems(metadata, 1))

\* Lines 276-289 for one extraction result.
ConvertMetadata(metadata) ==
    IF metadata = Null THEN NoRecords
    ELSE ThenSubRecords(Converted(MetadataToDocItem(metadata),
                                  [key |-> <<>>, index |-> 0]),
                        metadata)

\* The records of the file at position k, marked as coming from it.
FromFile(records, k) ==
    [threw   |-> records.threw,
     value   |-> records.value,
     origins |-> [n \in DOMAIN records.origins |->
                    [file |-> k, key |-> records.origins[n].key,
                     index |-> records.origins[n].index]]]

\* Lines 271-290 for the files k..last of a batch, up to a raise.
RECURSIVE ConvertBatch(_, _, _)
ConvertBatch(files, k, last) ==
    IF k > last THEN NoRecords
    ELSE ThenRecords(FromFile(ConvertMetadata(ExtractFile(files[k])), k),
                     ConvertBatch(files, k + 1, last))

\* The last position of the batch that starts after position k.
BatchEnd(k) ==
    IF k + BATCH_SIZE < Len(relevantFiles) THEN k + BATCH_SIZE ELSE Len(relevantFiles)

\* Faulty variant of BatchSettled: the batch is taken as done one file early.
BatchSettled_OneEarly(startedCount, settledCount) == settledCount + 1 >= startedCount

\* Line 271: Promise.all resolves when every extraction started has settled.
BatchSettled(startedCount, settledCount) == settledCount = startedCount

\* Lines 233-248
LoadAsync ==
    /\ zipPc = "load"
    /\ relevantFiles' = SelectSeq(zipEntries, RelevantFile)
    /\ zipPc' = "loop"
    /\ UNCHANGED <<zipEntries, i, docItems, started, settled, converted, origins>>
    /\ UNCHANGED <<fetcherVars, searchVars>>

\* Lines 251-269: the loop test, and batch.map starting every extraction
StartBatch ==
    /\ zipPc = "loop"
    /\ i < Len(relevantFiles)
    /\ started' = started + (BatchEnd(i) - i)
    /\ zipPc' = "extract"
    /\ UNCHANGED <<zipEntries, relevantFiles, i, docItems, settled, converted,
                   origins>>
    /\ UNCHANGED <<fetcherVars, searchVars>>

\* One extraction settles (its promise resolves to a FileMetadata or null).
ExtractionSettles ==
    /\ settled < started
    /\ settled' = settled + 1
    /\ UNCHANGED <<zipEntries, relevantFiles, i, docItems, zipPc, started,
                   converted, origins>>
    /\ UNCHANGED <<fetcherVars, searchVars>>

\* Lines 278 and 285 for the records of a batch, and where the loop goes on.
Push(batch) ==
    /\ docItems' = docItems \o batch.value
    /\ origins' = origins \o batch.origins
    /\ zipPc' = IF batch.threw THEN "threw" ELSE "pause"
    /\ converted' = IF batch.threw THEN converted ELSE BatchEnd(i)

\* Lines 271-300: Promise.all resolves and the batch's records are appended; an
\* exception raised on the way reaches the catch at 304.
AppendBatch ==
    /\ zipPc = "extract"
    /\ BatchSettled(started, settled)
    /\ Push(ConvertBatch(relevantFiles, i + 1, BatchEnd(i)))
    /\ UNCHANGED <<zipEntries, relevantFiles, i, started, settled>>
    /\ UNCHANGED <<fetcherVars, searchVars>>

\* Lines 300 and 251: the pause ends and the loop variable advances.
PauseElapses ==
    /\ zipPc = "pause"
    /\ i' = i + BATCH_SIZE
    /\ zipPc' = "loop"
    /\ UNCHANGED <<zipEntries, relevantFiles, docItems, started, settled,
                   converted, origins>>
    /\ UNCHANGED <<fetcherVars, searchVars>>

\* Line 303
ReturnDocItems ==
    /\ zipPc = "loop"
    /\ i >= Len(relevantFiles)
    /\ zipPc' = "returned"
    /\ UNCHANGED <<zipEntries, relevantFiles, i, docItems, started, settled,
                   converted, origins>>
    /\ UNCHANGED <<fetcherVars, searchVars>>

----------------------------------------------------------------------------
(* The archives processZipArchiveOptimized is run on *)

MaxFiles == 2

\* The folder GitHub's archive of a branch puts everything under.
ArchiveRoot == <<"d", "/">>

Path(name) == ArchiveRoot \o ContentRoot \o name

Md(header, title, description) ==
    [header |-> header, title |-> title, description |-> description]

Node(name, summary, tags) ==
    [kind |-> "object", name |-> name, summary |-> summary, tags |-> tags]

\* The sub-entries of a definition, by key of ENGINE_REF_ITEMS.
Members(properties, methods, events, items) ==
    [key \in Range(ENGINE_REF_ITEMS) |->
        CASE key = Properties -> properties
          [] key = Methods    -> methods
          [] key = Events     -> events
          [] key = Items      -> items
          [] OTHER            -> Undefined]

Yaml(doc, name, type, summary, members) ==
    [doc |-> doc, name |-> name, type |-> type, summary |-> summary,
     members |-> members]

NoMembers == Members(Undefined, Undefined, Undefined, Undefined)

Entry(path, content) ==
    [path |-> path, dir |-> FALSE, readable |-> TRUE, content |-> content]

DeprecatedTag == Array(<<Str(<<"H", "i", "d", "d", "e", "n">>), Str(Deprecated)>>)

\* A class whose members are named as creator-docs names them, one of them
\* deprecated, one named without its owner, two named alike.
ClassUp ==
    Yaml("mapping", Str(<<"U", "p">>), Undefined, Str(<<"u", "p">>),
         Members(Array(<<Node(Str(<<"U", "p", ".", "x">>), Str(<<"s">>), Undefined),
                         Node(Str(<<"U", "p", ".", "y">>), Undefined, DeprecatedTag),
                         Node(Str(<<"U", "p", ":", "x">>), Undefined, Array(<<>>)),
                         Node(Str(<<"z">>), Undefined, Undefined)>>),
                 Array(<<Node(Str(<<"U", "p", ".", "x">>), Undefined, Undefined)>>),
                 Undefined, Undefined))

\* An enum with items named alike, one deprecated, one without a name.
EnumEn ==
    Yaml("mapping", Str(<<"E", "n">>), Str(Enum), Undefined,
         Members(Undefined, Undefined, Undefined,
                 Array(<<Node(Str(<<"k">>), Undefined, Undefined),
                         Node(Str(<<"K">>), Str(Repeat("s", maxLength + 1)), Undefined),
                         Node(Undefined, Undefined, Undefined),
                         Node(Str(<<"d">>), Undefined, DeprecatedTag)>>)))

\* A class with one member, given by its name and the member node.
ClassWith(name, node) ==
    Yaml("mapping", name, Str(Class), Undefined,
         Members(Undefined, Undefined, Array(<<node>>), Undefined))

Catalogue ==
    { Entry(Path(<<"a", "-", "b", ".", "m", "d">>), Md("absent", Undefined, Undefined)),
      Entry(Path(<<"a", "_", "b", ".", "m", "d">>),
            Md("mapping", Str(<<"A", "b">>), Str(Repeat("x", maxLength + 1)))),
      Entry(Path(<<"c", ".", "m", "d">>), Md("unparsable", Undefined, Undefined)),
      Entry(Path(<<"e", ".", "m", "d">>), Md("mapping", Num(2024), Undefined)),
      Entry(Path(<<"f", ".", "m", "d">>), Md("mapping", Str(<<"E", "f">>), Num(7))),
      Entry(Path(<<"u", "i", "/", "g", ".", "m", "d">>),
            Md("mapping", Undefined, Str(Repeat("x", maxLength)))),
      Entry(Path(<<"a", "-", "b", ".", "y", "a", "m", "l">>), ClassUp),
      Entry(Path(<<"h", ".", "y", "a", "m", "l">>), EnumEn),
      Entry(Path(<<"j", ".", "y", "a", "m", "l">>),
            Yaml("unparsable", Undefined, Undefined, Undefined, NoMembers)),
      Entry(Path(<<"k", ".", "y", "a", "m", "l">>),
            Yaml("mapping", Undefined, Undefined, Undefined, NoMembers)),
      Entry(Path(<<"l", ".", "y", "a", "m", "l">>),
            Yaml("mapping", Num(123), Undefined, Undefined, NoMembers)),
      Entry(Path(<<"m", ".", "y", "a", "m", "l">>), ClassWith(Str(<<"M", "m">>), Null)),
      Entry(Path(<<"n", ".", "y", "a", "m", "l">>),
            ClassWith(Str(<<"N", "n">>), Node(Num(5), Undefined, Undefined))),
      Entry(Path(<<"o", ".", "y", "a", "m", "l">>),
            ClassWith(Str(Repeat("n", maxLength)),
                      Node(Str(<<"p">>), Undefined, Undefined))),
      Entry(ArchiveRoot \o <<"r", ".", "m", "d">>, Md("absent", Undefined, Undefined)),
      [path |-> Path(<<"s", "/">>), dir |-> TRUE, readable |-> FALSE,
       content |-> Md("absent", Undefined, Undefined)],
      [path |-> Path(<<"t", ".", "m", "d">>), dir |-> FALSE, readable |-> FALSE,
       content |-> Md("absent", Undefined, Undefined)] }

\* A prose file without header, one for each n.
Filler(n) ==
    Entry(Path(<<"f">> \o NumberToString(n) \o DotMd), Md("absent", Undefined, Undefined))

\* The numbers of well-formed files an archive is filled up with: none, one
\* batch, two batches.
Paddings == {0, BATCH_SIZE, 2 * BATCH_SIZE}

Fill(padding) == [n \in 1..padding |-> Filler(n)]

\* The sequences of at most count files of Catalogue, no path twice.
Samples(count) ==
    {sq \in UNION {[1..n -> Catalogue] : n \in 0..count} :
        \A j, k \in DOMAIN sq : j # k => sq[j].path # sq[k].path}

\* The archives: up to MaxFiles files of Catalogue, or one of them after or
\* before whole batches of well-formed files.
Archives ==
    Samples(MaxFiles)
    \cup {Fill(padding) \o sample : padding \in Paddings, sample \in Samples(1)}
    \cup {sample \o Fill(padding) : padding \in Paddings, sample \in Samples(1)}

InitExtract ==
    /\ now = 0
    /\ ticks = 0
    /\ remote = "a"
    /\ extVersion = 1
    /\ cacheData = Undefined
    /\ lastUpdateCheck = Undefined
    /\ call = [c \in Calls |-> Idle]
    /\ bg = {}
    /\ allDocs = <<>>
    /\ toast = "none"
    /\ cacheWriter = 0
    /\ shaReq = NoReq
    /\ bgReq = NoReq
    /\ updateAvailable = FALSE
    /\ zipEntries \in Archives
    /\ relevantFiles = <<>>
    /\ i = 0
    /\ docItems = <<>>
    /\ zipPc = "load"
    /\ started = 0
    /\ settled = 0
    /\ converted = 0
    /\ origins = <<>>
    /\ searchText = <<>>
    /\ filteredDocs = <<>>

NextExtract ==
    \/ LoadAsync
    \/ StartBatch
    \/ ExtractionSettles
    \/ AppendBatch
    \/ PauseElapses
    \/ ReturnDocItems

SpecExtract == InitExtract /\ [][NextExtract]_vars

----------------------------------------------------------------------------
(* The search view of Command: filteredDocs (creator-docs.tsx) *)

MAX_DISPLAYED_RESULTS == 50

\* String.prototype.trim, for the space character
RECURSIVE Trim(_)
Trim(s) ==
    IF s # <<>> /\ s[1] = " " THEN Trim(SubSeq(s, 2, Len(s)))
    ELSE IF s # <<>> /\ s[Len(s)] = " " THEN Trim(SubSeq(s, 1, Len(s) - 1))
    ELSE s

\* Line 80
TitleMatch(doc, searchLower) == Includes(ToLowerCase(doc.title), searchLower)

\* Line 84
DescriptionMatch(doc, searchLower) == Includes(ToLowerCase(doc.description), searchLower)

\* Line 85
KeywordMatch(doc, searchLower) ==
    \E k \in DOMAIN doc.keywords : Includes(ToLowerCase(doc.keywords[k]), searchLower)

\* Line 86
CategoryMatch(doc, searchLower) == Includes(ToLowerCase(doc.category), searchLower)

\* Line 87
TypeMatch(doc, searchLower) == Includes(ToLowerCase(doc.type), searchLower)

\* Faulty variant of Matches: the url is searched as well.
Matches_AlsoUrl(doc, searchLower) ==
    \/ TitleMatch(doc, searchLower)
    \/ DescriptionMatch(doc, searchLower)
    \/ KeywordMatch(doc, searchLower)
    \/ CategoryMatch(doc, searchLower)
    \/ TypeMatch(doc, searchLower)
    \/ Includes(ToLowerCase(doc.url), searchLower)

\* Lines 80-92: the documents the loop does not skip.
Matches(doc, searchLower) ==
    \/ TitleMatch(doc, searchLower)
    \/ DescriptionMatch(doc, searchLower)
    \/ KeywordMatch(doc, searchLower)
    \/ CategoryMatch(doc, searchLower)
    \/ TypeMatch(doc, searchLower)

\* Lines 94-98: the score of a match outside the title.
OtherScore(doc, searchLower) ==
    (IF DescriptionMatch(doc, searchLower) THEN 100
     ELSE IF KeywordMatch(doc, searchLower) THEN 75
     ELSE 50)
    * (IF doc.category = Classes THEN 8 ELSE 1)

\* a || b on strings
OrString(a, b) == IF a # <<>> THEN a ELSE b

\* Lines 105-106
TitlePart(titleLower) ==
    IF Includes(titleLower, <<":">>) \/ Includes(titleLower, <<".">>)
    THEN OrString(Split(titleLower, {":", "."}, 1)[2], titleLower)
    ELSE titleLower

\* Lines 108-114
MatchScore(titleLower, searchLower) ==
    IF titleLower = searchLower \/ TitlePart(titleLower) = searchLower THEN 1000
    ELSE IF StartsWith(titleLower, searchLower) THEN 500
    ELSE 250

\* Lines 117-120
CategoryMultiplier(doc) ==
    IF doc.category = Classes /\ doc.type \in {Class, Service} THEN 10
    ELSE IF doc.category = Classes THEN 8
    ELSE 1

\* Faulty variant of TitleScore: the title's length is added.
TitleScore_AddsLength(doc, searchLower) ==
    MatchScore(ToLowerCase(doc.title), searchLower) * CategoryMultiplier(doc)
    + Len(doc.title)

\* Lines 102-123: the score of a match in the title.
TitleScore(doc, searchLower) ==
    MatchScore(ToLowerCase(doc.title), searchLower) * CategoryMultiplier(doc)
    - Len(doc.title)

Score(doc, searchLower) ==
    IF TitleMatch(doc, searchLower) THEN TitleScore(doc, searchLower)
    ELSE OtherScore(doc, searchLower)

\* Lines 73-126: results, in the order of allDocs.
Results(docs, searchLower) ==
    Pick([k \in DOMAIN docs |-> [doc |-> docs[k], score |-> Score(docs[k], searchLower)]],
         {k \in DOMAIN docs : Matches(docs[k], searchLower)})

\* Line 129: Array.prototype.sort with (a, b) => b.score - a.score, which keeps
\* the order of results of equal score.
SortByScore(results) ==
    [n \in DOMAIN results |->
        results[CHOOSE k \in DOMAIN results :
                   Cardinality({j \in DOMAIN results :
                                   \/ results[j].score > results[k].score
                                   \/ /\ results[j].score = results[k].score
                                      /\ j <= k}) = n]]

\* Line 131
Docs(results) == [n \in DOMAIN results |-> results[n].doc]

\* Faulty variant of FilteredDocs: the results are cut before they are sorted.
FilteredDocs_SlicesFirst(docs, text) ==
    IF Len(docs) = 0 THEN <<>>
    ELSE IF Trim(text) = <<>> THEN <<>>
    ELSE Docs(SortByScore(Slice(Results(docs, ToLowerCase(text)),
                                MAX_DISPLAYED_RESULTS)))

\* Lines 62-132
FilteredDocs(docs, text) ==
    IF Len(docs) = 0 THEN <<>>
    ELSE IF Trim(text) = <<>> THEN <<>>
    ELSE Docs(Slice(SortByScore(Results(docs, ToLowerCase(text))),
                    MAX_DISPLAYED_RESULTS))

\* The search bar goes from searchText to text by one character typed, or by
\* being cleared.
Keystroke(text) ==
    \/ text = <<>>
    \/ /\ Len(text) = Len(searchText) + 1
       /\ SubSeq(text, 1, Len(searchText)) = searchText

\* setSearchText(text), and the render that follows it.
SetSearchText(text) ==
    /\ Keystroke(text)
    /\ text # searchText
    /\ searchText' = text
    /\ filteredDocs' = FilteredDocs(allDocs, text)
    /\ UNCHANGED <<now, ticks, remote, extVersion, cacheData, lastUpdateCheck, call,
                   bg, allDocs, toast, cacheWriter, shaReq, bgReq, updateAvailable>>
    /\ UNCHANGED zipVars

----------------------------------------------------------------------------
(* The record sets and the queries the search view is run on *)

MaxDocs == 2

Fire == <<"F", "i", "r", "e">>

Doc(title, description, keywords, category, type) ==
    [kind |-> "object", id |-> ToLowerCase(title), title |-> title,
     description |-> description, url |-> DocsBase \o title, category |-> category,
     keywords |-> keywords, type |-> type]

\* A record of category Documentation and type reference: weight 1.
Plain(title) == Doc(title, <<>>, <<>>, Documentation, Reference)

\* A member record of category Classes: weight 8.
Member(title) ==
    Doc(title, <<>>, <<ToLowerCase(title)>>, Classes, SUBITEM_TYPE_MAP(Methods))

Records ==
    { Member(Fire),
      Member(Fire \o <<"d">>),
      Member(<<"C", "a", "m", "p">> \o ToLowerCase(Fire)),
      Plain(<<"x", ".">> \o ToLowerCase(Fire)),
      Plain(Repeat("x", 501) \o <<".">> \o ToLowerCase(Fire)),
      Plain(ToLowerCase(Fire) \o <<"d">>),
      Plain(ToLowerCase(Fire) \o Repeat("x", 252)),
      Plain(<<"a">> \o ToLowerCase(Fire)),
      Plain(<<"A", ".", "B", ".", "C">>),
      Doc(<<"P", "a", "r", "t">>,
          <<"o", "n", " ">> \o ToLowerCase(Fire) \o <<" ", "n", "o", "w">>,
          << <<"p", "a", "r", "t">> >>, Classes, Class),
      Doc(<<"T", "o", "o", "l">>, <<>>, <<ToLowerCase(Fire) \o <<"a", "r", "m">> >>,
          <<"U", "I">>, Guide),
      Doc(<<"Z", "e", "d">>, <<>>, <<>>, <<"U", "I">>, Guide) }

\* n records whose titles start with "fire", the later the shorter: the last
\* one is titled "fire".
Bulk(n) == [k \in 1..n |-> Plain(ToLowerCase(Fire) \o Repeat("x", n - k))]

\* Every sequence of at most MaxDocs of the records above, and two sets with as
\* many and with more matching records than the view displays.
RecordSets ==
    UNION {[1..n -> Records] : n \in 0..MaxDocs}
    \cup {Bulk(MAX_DISPLAYED_RESULTS), Bulk(MAX_DISPLAYED_RESULTS + 1)}

\* The queries typed into the search bar.
Queries ==
    { ToLowerCase(Fire) \o <<" ">>,
      Fire,
      <<" ">>,
      <<"c", "l">>,
      <<"b">>,
      <<"G", "u">>,
      <<"d", "o", "c", "s">> }

\* The texts the search bar holds while a query is typed.
Texts == UNION {{SubSeq(q, 1, n) : n \in 0..Len(q)} : q \in Queries}

InitRank ==
    /\ now = 0
    /\ ticks = 0
    /\ remote = "a"
    /\ extVersion = 1
    /\ cacheData = Undefined
    /\ lastUpdateCheck = Undefined
    /\ call = [c \in Calls |-> Idle]
    /\ bg = {}
    /\ allDocs \in RecordSets
    /\ toast = "success"
    /\ cacheWriter = 0
    /\ shaReq = NoReq
    /\ bgReq = NoReq
    /\ updateAvailable = FALSE
    /\ zipEntries = <<>>
    /\ relevantFiles = <<>>
    /\ i = 0
    /\ docItems = <<>>
    /\ zipPc = "idle"
    /\ started = 0
    /\ settled = 0
    /\ converted = 0
    /\ origins = <<>>
    /\ searchText = <<>>
    /\ filteredDocs = <<>>

NextRank == \E text \in Texts : SetSearchText(text)

SpecRank == InitRank /\ [][NextRank]_vars

----------------------------------------------------------------------------
(* Properties *)

\* fetchDocsData is invoked for caller c in this step (a step that repeats a
\* cache hit without scheduling a check leaves every variable as it was).
Invoked(c) ==
    /\ call[c].pc \in {"idle", "done"}
    /\ call'[c] # call[c] \/ lastUpdateCheck' # lastUpdateCheck

\* The slot holds an entry that deserializes and is at most cacheExpiry old.
FreshEntry ==
    /\ cacheData.kind = "json"
    /\ now - cacheData.timestamp <= cacheExpiry

\* The only request the step may issue is the background version check.
OnlySchedulesBackgroundCheck ==
    \/ UNCHANGED <<bg, shaReq, bgReq, lastUpdateCheck>>
    \/ /\ bg' = bg \cup {cacheData.sha}
       /\ bgReq' = LogReq(bgReq)
       /\ shaReq' = LogReq(shaReq)

\* C1 (as amended): whenever the slot holds an entry that deserializes, is at
\* most 24h old and has a non-empty record list, fetchDocsData returns exactly
\* that entry's records without awaiting a version check or starting an archive
\* download, and only schedules the background version check.
C1_CacheHitReturnsImmediately ==
    [][\A c \in Calls :
        (Invoked(c) /\ cacheData' = cacheData /\ FreshEntry /\ Len(cacheData.data) > 0)
        => /\ call'[c].pc = "done"
           /\ call'[c].path = "cache"
           /\ call'[c].result = Resolved(cacheData.data)
           /\ allDocs' = cacheData.data
           /\ OnlySchedulesBackgroundCheck]_vars

C1_Witness ==
    \E c \in Calls :
        /\ call[c].pc = "done"
        /\ call[c].path = "cache"
        /\ FreshEntry
        /\ call[c].result = Resolved(cacheData.data)
        /\ now - cacheData.timestamp = cacheExpiry
        /\ bg # {}

\* C1 (as claimed): the same for every entry that deserializes and is at most
\* 24h old, whatever its record list.
C1_Original ==
    [][\A c \in Calls :
        (Invoked(c) /\ cacheData' = cacheData /\ FreshEntry)
        => /\ call'[c].pc = "done"
           /\ call'[c].path = "cache"
           /\ call'[c].result = Resolved(cacheData.data)]_vars

\* What the cache read returns in the current state.
CacheRead == GetCachedData(cacheData, now)

C2_ReadIsNullExactlyWhen ==
    /\ CacheRead = Null <=>
          \/ cacheData = Undefined
          \/ cacheData = Garbage
          \/ (cacheData.kind = "json" /\ now - cacheData.timestamp > cacheExpiry)
    /\ CacheRead # Null =>
          /\ CacheRead.data = cacheData.data
          /\ CacheRead.sha = cacheData.sha
          /\ CacheRead.timestamp = cacheData.timestamp

\* C2: the cache read returns null exactly when the slot is empty, the stored
\* string does not deserialize, or now - timestamp > 24h, and otherwise returns
\* the stored entry unchanged; with an expired entry in the slot the caller
\* proceeds to a fresh fetch.
C2_CacheReadContract ==
    /\ []C2_ReadIsNullExactlyWhen
    /\ [][\A c \in Calls :
            (/\ Invoked(c)
             /\ cacheData.kind = "json"
             /\ now - cacheData.timestamp > cacheExpiry)
            => /\ call'[c].pc = "sha"
               /\ call'[c].path = "fresh"]_vars

C2_Witness ==
    \E c \in Calls :
        /\ cacheData.kind = "json"
        /\ now - cacheData.timestamp = cacheExpiry + 1
        /\ CacheRead = Null
        /\ call[c].pc = "sha"

\* C3 (as claimed): an entry written by another extension version than the one
\* running is treated as absent by the cache read.
C3_VersionMismatchReadsNull ==
    (cacheData.kind = "json" /\ cacheWriter # extVersion) => CacheRead = Null

\* C4 (as claimed): any two version-check requests are at least one hour apart.
C4_Original ==
    shaReq.gap = -1 \/ shaReq.gap >= updateCheckInterval

\* C4 (as amended): any two version-check requests issued by the background
\* path (checkForUpdatesInBackground) are at least one hour apart.
C4_BackgroundChecksThrottled ==
    bgReq.gap = -1 \/ bgReq.gap >= updateCheckInterval

C4_Witness ==
    /\ bgReq.gap = updateCheckInterval
    /\ bgReq.age = 0

\* C5 (as claimed): once a background check has seen a non-null remote
\* identifier that differs from the cached entry's sha, the next fetchDocsData
\* performs a fresh fetch although the entry is within its TTL.
C5_SeenUpdateForcesFreshFetch ==
    [][\A c \in Calls :
        (Invoked(c) /\ updateAvailable /\ FreshEntry /\ Len(cacheData.data) > 0)
        => call'[c].path = "fresh"]_vars

\* A background check settles in this step.
BgSettles == bg' # bg /\ bg' \subseteq bg

\* A background check is scheduled in this step.
BgScheduled == bg' # bg /\ bg \subseteq bg'

\* C6: the background version check is detached: the call that schedules it
\* returns the cached records in the same step, and when the check settles,
\* whatever its outcome, no call's state or result, no request, the caller's
\* record set and neither cache key changes.
C6_BackgroundCheckDetached ==
    [][/\ BgScheduled =>
             \E c \in Calls : /\ call'[c].pc = "done"
                              /\ call'[c].result = Resolved(cacheData.data)
                              /\ cacheData' = cacheData
       /\ BgSettles =>
             UNCHANGED <<cacheData, lastUpdateCheck, call, allDocs, toast,
                         shaReq, bgReq>>]_vars

C6_Witness ==
    \E c \in Calls :
        /\ updateAvailable
        /\ bg = {}
        /\ call[c].pc = "done"
        /\ call[c].path = "cache"
        /\ call[c].result = Resolved(cacheData.data)

\* C7: the version check never raises, and yields null on a network error, a
\* timeout or a non-success status; with a null identifier the fresh fetch still
\* requests and processes the archive and, on success, returns the records and
\* caches them with sha = null.
C7_VersionCheckNeverRaises ==
    [][\A c \in Calls :
        /\ (call[c].pc = "sha" /\ call'[c] # call[c])
           => /\ call'[c].pc = "zip"
              /\ call'[c].result = Pending
              /\ call'[c].shaOutcome # "ok" => call'[c].latestSha = NULL
              /\ call'[c].shaOutcome = "ok" => call'[c].latestSha = remote
        /\ (/\ call[c].pc = "process"
            /\ call[c].latestSha = NULL
            /\ call[c].zipBuffer.valid
            /\ call'[c] # call[c])
           => /\ call'[c].result = Resolved(call[c].zipBuffer.docs)
              /\ cacheData' = [kind |-> "json", data |-> call[c].zipBuffer.docs,
                               timestamp |-> now, sha |-> NULL]]_vars

C7_Witness ==
    \E c \in Calls :
        /\ call[c].pc = "done"
        /\ call[c].path = "fresh"
        /\ cacheData.kind = "json"
        /\ cacheData.sha = NULL
        /\ cacheData.timestamp = now
        /\ Len(cacheData.data) > 0
        /\ call[c].result = Resolved(cacheData.data)

\* C8: when the archive request fails (network error, timeout or non-success
\* status), fetchDocsData does not reject: it resolves to an empty record list.
C8_FailedDownloadResolvesEmpty ==
    [][\A c \in Calls :
        (call[c].pc = "zip" /\ call'[c].pc = "done")
        => /\ call'[c].caught \in {"request", "status"}
           /\ call'[c].result = Resolved(<<>>)
           /\ toast' = "success"]_vars

C8_Witness ==
    \E c \in Calls :
        /\ call[c].pc = "done"
        /\ call[c].caught = "status"
        /\ call[c].result = Resolved(<<>>)
        /\ CacheRead = Null

\* The archive request of call c fails in this step while the slot holds an
\* entry that deserializes and has a non-empty record list.
FailsWithEntry(c) ==
    /\ call[c].pc = "zip"
    /\ call'[c].pc = "done"
    /\ cacheData.kind = "json"
    /\ Len(cacheData.data) > 0

\* C9 (as claimed): when the archive request fails while the slot holds an
\* entry with a non-empty record list, fetchDocsData returns those records and
\* the caller's record set is not replaced by an empty one.
C9_Original ==
    [][\A c \in Calls :
        FailsWithEntry(c) => /\ call'[c].result = Resolved(cacheData.data)
                             /\ allDocs' # <<>>]_vars

\* C9 (as amended): when the archive request fails while the slot holds an
\* entry with a non-empty record list, fetchDocsData does not fall back to it:
\* it returns an empty list, the caller's record set becomes empty, and the slot
\* keeps the entry.
C9_NoFallbackToCachedRecords ==
    [][\A c \in Calls :
        FailsWithEntry(c) => /\ call'[c].result = Resolved(<<>>)
                             /\ allDocs' = <<>>
                             /\ cacheData' = cacheData]_vars

C9_Witness ==
    \E c \in Calls :
        /\ call[c].pc = "done"
        /\ call[c].caught = "request"
        /\ cacheData.kind = "json"
        /\ Len(cacheData.data) > 0
        /\ call[c].result = Resolved(<<>>)
        /\ allDocs = <<>>

\* The processing of call c ends in this step on bytes that are no archive.
InvalidArchiveProcessed(c) ==
    /\ call[c].pc = "process"
    /\ ~ call[c].zipBuffer.valid
    /\ call'[c].pc = "done"

\* C10 (as claimed): bytes that cannot be opened as an archive make
\* fetchDocsData reject, so that loadDocsData takes its failure branch.
C10_Original ==
    [][\A c \in Calls :
        InvalidArchiveProcessed(c) => /\ call'[c].result = Rejected
                                      /\ toast' = "failure"]_vars

\* C10 (as amended): bytes that cannot be opened as an archive make
\* processZipArchiveOptimized throw; fetchFreshData catches the error, writes
\* nothing to the cache and resolves to an empty list, so that fetchDocsData
\* does not reject and loadDocsData takes its success branch.
C10_InvalidArchiveResolvesEmpty ==
    [][\A c \in Calls :
        InvalidArchiveProcessed(c) => /\ call'[c].caught = "archive"
                                      /\ call'[c].result = Resolved(<<>>)
                                      /\ toast' = "success"
                                      /\ allDocs' = <<>>
                                      /\ cacheData' = cacheData]_vars

C10_Witness ==
    \E c \in Calls :
        /\ call[c].pc = "done"
        /\ call[c].caught = "archive"
        /\ call[c].result = Resolved(<<>>)
        /\ toast = "success"

\* The fresh fetch of call c ends in this step with a processed archive.
FreshFetchSucceeds(c) ==
    /\ call[c].pc = "process"
    /\ call[c].zipBuffer.valid
    /\ call'[c].pc = "done"
    /\ call'[c].caught = "none"
    /\ call'[c].result = Resolved(call[c].zipBuffer.docs)

\* C11: the cache entry is written only at the end of a fresh fetch whose
\* download and archive processing both succeeded, and is then replaced
\* wholesale; every other step of a refresh, failing ones included, leaves the
\* slot as it was (only clearCache, between refreshes, empties it).
C11_SlotWrittenOnlyOnSuccess ==
    [][/\ cacheData' # cacheData =>
            \/ /\ cacheData' = Undefined
               /\ \A c \in Calls : call[c].pc \in {"idle", "done"}
            \/ \E c \in Calls :
                  /\ FreshFetchSucceeds(c)
                  /\ cacheData' = [kind |-> "json",
                                   data |-> call[c].zipBuffer.docs,
                                   timestamp |-> now,
                                   sha |-> call[c].latestSha]
       /\ \A c \in Calls :
            (call[c].pc \in {"sha", "zip", "process"} /\ ~ FreshFetchSucceeds(c))
            => cacheData' = cacheData]_vars

C11_Witness ==
    \E c \in Calls :
        /\ call[c].pc = "done"
        /\ call[c].caught = "archive"
        /\ cacheData.kind = "json"
        /\ Len(cacheData.data) > 0
        /\ now - cacheData.timestamp > cacheExpiry

\* C12: after clearCache the cache read returns null until the next successful
\* fresh fetch writes an entry, the fetchDocsData that follows the clear performs
\* a fresh fetch, and clearing an empty slot changes nothing.
C12_ClearCacheForcesFreshFetch ==
    /\ [](cacheWriter = 0 => CacheRead = Null)
    /\ [][/\ \A c \in Calls :
               (Invoked(c) /\ cacheWriter' = 0)
               => /\ call'[c].pc = "sha"
                  /\ call'[c].path = "fresh"
                  /\ cacheData' \in {Undefined, Garbage}
                  /\ (cacheData = Undefined => cacheData' = cacheData)
                  /\ lastUpdateCheck' = lastUpdateCheck
          /\ (cacheWriter = 0 /\ cacheWriter' # 0)
               => \E c \in Calls : FreshFetchSucceeds(c)]_vars

C12_Witness ==
    \E c \in Calls :
        /\ cacheWriter = 0
        /\ cacheData = Undefined
        /\ allDocs # <<>>
        /\ lastUpdateCheck # Undefined
        /\ call[c].pc = "sha"

----------------------------------------------------------------------------
(* Properties of the extractor and the archive processor *)

\* The positions in docItems of the records that come from file k.
RecordsOf(k) == {n \in DOMAIN docItems : origins[n].file = k}

\* The positions in docItems of the member-level records.
MemberRecords == {n \in DOMAIN docItems : origins[n].index > 0}

\* The definition document and the sub-entry node record n was made from.
OwnerOf(n) == relevantFiles[origins[n].file].content

NodeOf(n) == OwnerOf(n).members[origins[n].key].items[origins[n].index]

\* A definition document one of whose first MaxSubitems sub-entries, under
\* some key, is null.
HasNullSubEntry(data) ==
    \E key \in Range(ENGINE_REF_ITEMS) :
        /\ data.members[key].kind = "array"
        /\ \E j \in DOMAIN data.members[key].items :
              j <= MaxSubitems /\ data.members[key].items[j] = Null

\* C13: extraction is isolated per file: whatever the files hold, the run never
\* ends in an exception; a readable prose file with a missing or unparsable
\* header yields the one minimal record derived from its path, a definition
\* file that cannot be parsed, has no name or holds a null sub-entry yields no
\* record, and every readable prose file has its record.
C13_ExtractionIsolatedPerFile ==
    /\ zipPc # "threw"
    /\ zipPc = "returned" =>
         \A k \in DOMAIN relevantFiles :
            /\ (EndsWith(relevantFiles[k].path, DotMd) /\ relevantFiles[k].readable)
                 => /\ Cardinality(RecordsOf(k)) = 1
                    /\ relevantFiles[k].content.header # "mapping"
                         => \A n \in RecordsOf(k) :
                               /\ docItems[n].title =
                                     ExtractTitleFromPath(relevantFiles[k].path)
                               /\ docItems[n].description = <<>>
            /\ (/\ EndsWith(relevantFiles[k].path, DotYaml)
                /\ \/ relevantFiles[k].content.doc # "mapping"
                   \/ relevantFiles[k].content.name = Undefined
                   \/ HasNullSubEntry(relevantFiles[k].content))
                 => RecordsOf(k) = {}

\* C14: batches are strictly sequential: the extractions in flight all belong
\* to the batch the loop is at, there are at most BATCH_SIZE of them, and a
\* batch starts only when every extraction started before has settled and the
\* records of every file before it were appended.
C14_BatchesSequential ==
    /\ [](/\ started - settled <= BATCH_SIZE
          /\ settled < started
               => /\ zipPc = "extract"
                  /\ settled >= i
                  /\ started = BatchEnd(i))
    /\ [][started' > started
            => /\ settled = started
               /\ converted = started
               /\ started = i
               /\ started' - started <= BATCH_SIZE]_vars

C14_Witness ==
    /\ zipPc = "extract"
    /\ i = BATCH_SIZE
    /\ started - settled = BATCH_SIZE
    /\ converted = BATCH_SIZE
    /\ Len(docItems) = BATCH_SIZE
    /\ Len(relevantFiles) > 2 * BATCH_SIZE

\* C15: no two records of the record set of one run share an id.
C15_IdsUnique ==
    \A j, k \in DOMAIN docItems : j # k => docItems[j].id # docItems[k].id

\* C16: no record of the record set comes from a sub-entry whose tags contain
\* the deprecated marker, under whatever key of whatever definition file.
C16_DeprecatedSubEntriesDropped ==
    \A n \in MemberRecords :
        ~ (/\ NodeOf(n).tags.kind = "array"
           /\ \E t \in DOMAIN NodeOf(n).tags.items :
                 NodeOf(n).tags.items[t] = Str(Deprecated))

C16_Witness ==
    /\ zipPc = "returned"
    /\ \E k \in DOMAIN relevantFiles :
          /\ EndsWith(relevantFiles[k].path, DotYaml)
          /\ relevantFiles[k].content.members[Properties].kind = "array"
          /\ \E j \in DOMAIN relevantFiles[k].content.members[Properties].items :
                relevantFiles[k].content.members[Properties].items[j].tags
                    = DeprecatedTag
          /\ \E n \in RecordsOf(k) : origins[n].key = Properties
    /\ \E k \in DOMAIN relevantFiles :
          /\ EndsWith(relevantFiles[k].path, DotYaml)
          /\ relevantFiles[k].content.type = Str(Enum)
          /\ \E n \in RecordsOf(k) : origins[n].key = Items

\* C17 as first stated: every member-level record has a title that starts
\* with the name of its owner and a separator, whatever the owner's type.
C17_Original ==
    \A n \in MemberRecords :
        \/ StartsWith(docItems[n].title, TemplateString(OwnerOf(n).name) \o <<".">>)
        \/ StartsWith(docItems[n].title, TemplateString(OwnerOf(n).name) \o <<":">>)

\* C17: a member-level record of an enum has the title Owner.Member; a
\* member-level record of any other owner has the name of the sub-entry as the
\* definition file gives it.
C17_MemberTitles ==
    \A n \in MemberRecords :
        Str(docItems[n].title) =
            IF OwnerOf(n).type = Str(Enum)
            THEN Str(TemplateString(OwnerOf(n).name) \o <<".">>
                     \o TemplateString(NodeOf(n).name))
            ELSE NodeOf(n).name

C17_Witness ==
    /\ zipPc = "returned"
    /\ \E n \in MemberRecords :
          /\ OwnerOf(n).type = Str(Enum)
          /\ docItems[n].title = <<"E", "n", ".", "k">>
    /\ \E n \in MemberRecords :
          /\ OwnerOf(n).type # Str(Enum)
          /\ docItems[n].title = <<"z">>
          /\ OwnerOf(n).name = Str(<<"U", "p">>)

\* C18: every record has a description of at most maxLength characters plus
\* the ellipsis.
C18_DescriptionsCapped ==
    \A n \in DOMAIN docItems :
        Len(docItems[n].description) <= maxLength + Len(Ellipsis)

----------------------------------------------------------------------------
(* Properties of the search view *)

\* s contains q, letter case apart.
ContainsIgnoringCase(s, q) == Includes(ToLowerCase(s), ToLowerCase(q))

\* C19: for a query that is not blank, every record the ranker returns contains
\* the query, letter case apart, in its title, its description, one of its
\* keywords, its category or its type.
C19_ReturnedRecordsContainQuery ==
    Trim(searchText) # <<>> =>
        \A n \in DOMAIN filteredDocs :
            \/ ContainsIgnoringCase(filteredDocs[n].title, searchText)
            \/ ContainsIgnoringCase(filteredDocs[n].description, searchText)
            \/ \E k \in DOMAIN filteredDocs[n].keywords :
                  ContainsIgnoringCase(filteredDocs[n].keywords[k], searchText)
            \/ ContainsIgnoringCase(filteredDocs[n].category, searchText)
            \/ ContainsIgnoringCase(filteredDocs[n].type, searchText)

C19_Witness ==
    /\ searchText = Fire
    /\ Len(allDocs) = 2
    /\ Len(filteredDocs) = 1
    /\ ~ ContainsIgnoringCase(filteredDocs[1].title, searchText)
    /\ ~ ContainsIgnoringCase(filteredDocs[1].description, searchText)
    /\ \E k \in DOMAIN filteredDocs[1].keywords :
          ContainsIgnoringCase(filteredDocs[1].keywords[k], searchText)

\* Records j and k of filteredDocs both match in the title, have the same
\* category and type, and j is in a higher tier than k.
HigherTier(j, k) ==
    /\ TitleMatch(filteredDocs[j], ToLowerCase(searchText))
    /\ TitleMatch(filteredDocs[k], ToLowerCase(searchText))
    /\ filteredDocs[j].category = filteredDocs[k].category
    /\ filteredDocs[j].type = filteredDocs[k].type
    /\ MatchScore(ToLowerCase(filteredDocs[j].title), ToLowerCase(searchText))
         > MatchScore(ToLowerCase(filteredDocs[k].title), ToLowerCase(searchText))

\* C20 as first stated: of two title-matching records of the same category and
\* type, the one in the higher tier ranks above the other, whatever the lengths
\* of the titles.
C20_Original ==
    \A j, k \in DOMAIN filteredDocs : HigherTier(j, k) => j < k

\* The distance between the tiers of records j and k, times their weight.
TierGap(j, k) ==
    (MatchScore(ToLowerCase(filteredDocs[j].title), ToLowerCase(searchText))
     - MatchScore(ToLowerCase(filteredDocs[k].title), ToLowerCase(searchText)))
    * CategoryMultiplier(filteredDocs[j])

\* C20: of two title-matching records of the same category and type, the one in
\* the higher tier ranks above the other when its title is longer by less than
\* the distance between the tiers times the weight, and below it when its title
\* is longer by more than that.
C20_TiersOrderedUpToLength ==
    \A j, k \in DOMAIN filteredDocs :
        HigherTier(j, k) =>
            /\ Len(filteredDocs[j].title) - Len(filteredDocs[k].title) < TierGap(j, k)
                 => j < k
            /\ Len(filteredDocs[j].title) - Len(filteredDocs[k].title) > TierGap(j, k)
                 => k < j

C20_Witness ==
    /\ searchText = ToLowerCase(Fire)
    /\ Len(filteredDocs) = 2
    /\ HigherTier(1, 2)
    /\ Len(filteredDocs[1].title) > Len(filteredDocs[2].title)
    /\ CategoryMultiplier(filteredDocs[1]) = 1

\* The segment of a title after its last ":" or "."
LastSegment(titleLower) == Last(Split(titleLower, {":", "."}, 1))

\* C21: for a non-blank query, a record whose title contains the query gets the
\* base score 1000 exactly when its lowercased title equals the lowercased
\* query or the segment after the last ":" or "." of the title equals it.
C21_ExactIffLastSegment ==
    Trim(searchText) # <<>> =>
        \A k \in DOMAIN allDocs :
            TitleMatch(allDocs[k], ToLowerCase(searchText)) =>
                (MatchScore(ToLowerCase(allDocs[k].title), ToLowerCase(searchText)) = 1000
                 <=> \/ ToLowerCase(allDocs[k].title) = ToLowerCase(searchText)
                     \/ LastSegment(ToLowerCase(allDocs[k].title))
                          = ToLowerCase(searchText))

\* The positions of allDocs that match the search text.
Matching == {k \in DOMAIN allDocs : Matches(allDocs[k], ToLowerCase(searchText))}

\* How many times the record doc occurs at the positions of docs in among.
Occurrences(docs, among, doc) == Cardinality({k \in among : docs[k] = doc})

Min(a, b) == IF a < b THEN a ELSE b

\* C22: for a non-blank query the displayed list is the first
\* MAX_DISPLAYED_RESULTS of the matching records by non-increasing score: it has
\* as many items as there are matching records, up to MAX_DISPLAYED_RESULTS; its
\* scores do not increase; each of its items is a matching record, no more
\* often than it matches; and a matching record left out scores no more than
\* the last item displayed.
C22_FirstLimitByScore ==
    Trim(searchText) # <<>> =>
        /\ Len(filteredDocs) = Min(MAX_DISPLAYED_RESULTS, Cardinality(Matching))
        /\ \A n \in 1..(Len(filteredDocs) - 1) :
              Score(filteredDocs[n], ToLowerCase(searchText))
                >= Score(filteredDocs[n + 1], ToLowerCase(searchText))
        /\ \A n \in DOMAIN filteredDocs :
              /\ Occurrences(filteredDocs, DOMAIN filteredDocs, filteredDocs[n])
                   <= Occurrences(allDocs, Matching, filteredDocs[n])
              /\ Occurrences(allDocs, Matching, filteredDocs[n]) > 0
        /\ \A k \in Matching :
              Occurrences(filteredDocs, DOMAIN filteredDocs, allDocs[k])
                < Occurrences(allDocs, Matching, allDocs[k])
              => /\ Len(filteredDocs) = MAX_DISPLAYED_RESULTS
                 /\ Score(allDocs[k], ToLowerCase(searchText))
                      <= Score(filteredDocs[Len(filteredDocs)], ToLowerCase(searchText))

\* More records match than are displayed, and the one displayed first is the
\* last of allDocs.
C22_Witness ==
    /\ Trim(searchText) # <<>>
    /\ Cardinality(Matching) > MAX_DISPLAYED_RESULTS
    /\ Len(filteredDocs) = MAX_DISPLAYED_RESULTS
    /\ filteredDocs[1] = allDocs[Len(allDocs)]
    /\ Score(filteredDocs[1], ToLowerCase(searchText))
         > Score(filteredDocs[MAX_DISPLAYED_RESULTS], ToLowerCase(searchText))

\* C23: for a non-blank query, a displayed record whose title contains the query
\* stands above every displayed record whose title does not contain it.
C23_TitleMatchesRankFirst ==
    Trim(searchText) # <<>> =>
        \A j, k \in DOMAIN filteredDocs :
            (/\ TitleMatch(filteredDocs[j], ToLowerCase(searchText))
             /\ ~ TitleMatch(filteredDocs[k], ToLowerCase(searchText)))
            => j < k

----------------------------------------------------------------------------
(* Properties of the update-check marker and of empty entries *)

\* The marker was written less than updateCheckInterval ago.
MarkerRecent ==
    /\ lastUpdateCheck # Undefined
    /\ now - ParseInt(lastUpdateCheck.chars) < updateCheckInterval

\* C24: the update-check marker is independent of the cache entry.  It changes
\* only in a step in which a call served from the cache starts a background
\* check, and then to the current time, the entry staying as it is; no step
\* that changes the entry (clearCache, the write of a fresh fetch) and no
\* settling of a check, whatever its outcome, changes it; and a call served
\* from the cache less than one hour after the last marker write starts no
\* check, whichever entry it is served from.
C24_MarkerIndependentOfEntry ==
    [][/\ lastUpdateCheck' # lastUpdateCheck =>
             /\ lastUpdateCheck' = Str(ToString(now))
             /\ bgReq' = LogReq(bgReq)
             /\ cacheData.sha \in bg'
             /\ cacheData' = cacheData
             /\ \E c \in Calls : call'[c].pc = "done" /\ call'[c].path = "cache"
       /\ cacheData' # cacheData => lastUpdateCheck' = lastUpdateCheck
       /\ BgSettles => lastUpdateCheck' = lastUpdateCheck
       /\ \A c \in Calls :
             (Invoked(c) /\ cacheData' = cacheData /\ MarkerRecent)
             => UNCHANGED <<bg, bgReq, lastUpdateCheck>>]_vars

\* A check started on the entry of commit "a" is still in flight, the entry was
\* since cleared and fetched afresh from commit "b", and a call has been served
\* from the new entry without a check being started for it.
C24_Witness ==
    \E c \in Calls :
        /\ bg = {"a"}
        /\ cacheData.kind = "json"
        /\ cacheData.sha = "b"
        /\ MarkerRecent
        /\ call[c].pc = "done"
        /\ call[c].path = "cache"
        /\ call[c].result = Resolved(cacheData.data)

\* The slot holds an entry with an empty record list.
EmptyEntry ==
    /\ cacheData.kind = "json"
    /\ Len(cacheData.data) = 0

\* C25: an entry with an empty record list is written but never served.  A
\* fresh fetch whose archive yields no record writes its entry; a fetchDocsData
\* that finds an empty entry in the slot, of whatever age, starts no background
\* check and issues the version check of a fresh fetch; and the version check of
\* a fresh fetch, however it settles, is followed by the archive download.
C25_EmptyEntryNeverServed ==
    [][\A c \in Calls :
        /\ (Invoked(c) /\ cacheData' = cacheData /\ EmptyEntry)
           => /\ call'[c].pc = "sha"
              /\ call'[c].path = "fresh"
              /\ call'[c].result = Pending
              /\ shaReq' = LogReq(shaReq)
              /\ UNCHANGED <<bg, bgReq, lastUpdateCheck, allDocs>>
        /\ (call[c].pc = "sha" /\ call'[c] # call[c]) => call'[c].pc = "zip"
        /\ (/\ call[c].pc = "process"
            /\ call[c].zipBuffer = [valid |-> TRUE, docs |-> <<>>]
            /\ call'[c] # call[c])
           => /\ cacheData'.kind = "json"
              /\ cacheData'.data = <<>>
              /\ cacheData'.timestamp = now]_vars

\* An empty entry written earlier in the same hour is in the slot, and the
\* call that found it there is downloading the archive again.
C25_Witness ==
    \E c \in Calls :
        /\ EmptyEntry
        /\ cacheData.timestamp = now
        /\ call[c].pc = "zip"
        /\ call[c].path = "fresh"

====
